---- MODULE Spec2Model ----
(***************************************************************************)
(* Model of the HKDC exchange ledger (src/main.py, src/crud.py,            *)
(* src/models.py, src/blockchain_service.py).                              *)
(*                                                                         *)
(* The persisted rows (users, accounts, transactions, withdrawal_whitelist,*)
(* bank_accounts) are the shared state.  Every HTTP request is served by a *)
(* worker with its own SQLAlchemy Session; a request is a sequence of      *)
(* database round trips, and the round trips of different requests         *)
(* interleave freely (the handlers are plain `def` endpoints, run in a     *)
(* thread pool, and nothing in the code takes a lock or a row lock).       *)
(* One action of the model is one round trip (a query, or a commit)        *)
(* together with the local computation that follows it.                    *)
(*                                                                         *)
(* Session semantics that the handlers rely on (SQLAlchemy identity map):  *)
(* an object that a session has loaded and not yet expired keeps its       *)
(* loaded attribute values when a later query of the same session returns  *)
(* the same row; commit() expires every object of the session.  Hence the  *)
(* Account row read by a handler's balance check is the very object that   *)
(* update_balance later increments: the debit writes (balance read at the  *)
(* check) - amount.  An Account that the session has not loaded is read    *)
(* from the database by update_balance itself.                             *)
(*                                                                         *)
(* Amounts and balances are Float columns in the code; the model uses      *)
(* integers (no rounding is modelled).                                     *)
(***************************************************************************)
EXTENDS Integers, Sequences, FiniteSets, TLC

\* ------------------------------------------------------------------ bounds
MaxRequests == 2      \* requests received in one behaviour; they may all overlap

\* ------------------------------------------------------------ input domains
Requests == 1..MaxRequests            \* requests, numbered in order of arrival
Users == {1, 2, 3}                    \* users.id; a user's email is keyed by the id
NewUsers == {4}                       \* the id a registration gives out
AllUsers == Users \cup NewUsers
RegisterEmails == {1, 4}              \* user.email of register_user, by user id
Initiators == {1, 2}                  \* the users that send value-moving requests
Amounts == {60}                       \* request.amount (Field gt=0)
Web3Amounts == {60}                   \* request.amount of withdraw_to_web3
Addresses == {"0xA", "0xB", "0xC"}    \* recipient_web3_address
BankAccounts == {1, 2}                \* bank_accounts.id
FullNames == {"Ann", "Bea"}           \* kyc_data.full_name
NewIds == {"ID1", "ID4"}              \* kyc_data.identity_card_number
Emails == Users \cup {0}               \* recipient_email; 0: an email no user has
NewStatuses == {"normal", "frozen", "closed"}   \* status_update.status
WhitelistIds == {1, 2, 3}             \* address_id of update_whitelist_status
AddAddresses == {"0xA", "0xC", "0x"}  \* whitelist_data.address
AddLabels == {"hot"}                  \* whitelist_data.label
GatewayOutcomes == {"success", "reverted", "rejected", "timeout"}
Null == "null"                        \* SQL NULL / Python None
NotLoaded == -1                       \* the session holds no unexpired Account object
NoTime == -1                          \* SQL NULL in a DateTime column

VARIABLES
    users,                  \* ids of the rows of the users table
    accounts,               \* user_id of the rows of the accounts table
    status,                 \* users.status
    full_name,              \* users.full_name
    identity_card_number,   \* users.identity_card_number
    balance,                \* accounts.balance, by user_id
    whitelist_rows,         \* withdrawal_whitelist: the address of each row, by id
    whitelist,              \* withdrawal_whitelist.status by address ("absent": no row)
    label,                  \* withdrawal_whitelist.label by address
    frozen_at,              \* withdrawal_whitelist.frozen_at by address
    transactions,           \* the transactions table, in insertion order
    req,                    \* per request: its input, its session's state, its
                            \* position in the handler and its response
    applied                 \* history: initial balance plus the deltas of the
                            \* update_balance calls that committed, by user_id

vars == <<users, accounts, status, full_name, identity_card_number, balance,
          whitelist_rows, whitelist, label, frozen_at, transactions, req,
          applied>>

\* the users table and the existence of the accounts rows
user_tables == <<users, accounts, status, full_name, identity_card_number>>

\* the withdrawal_whitelist table
whitelist_table == <<whitelist_rows, whitelist, label, frozen_at>>

db == <<users, accounts, status, full_name, identity_card_number, balance,
        whitelist_rows, whitelist, label, frozen_at, transactions>>

\* bank_accounts.user_id of each bank_accounts row (the table is not written
\* by any handler modelled here)
BankAccountOwner(b) == b

\* ---------------------------------------------------------------- helpers

\* main.py:205, 256, 292: `not account or account.balance < request.amount`
InsufficientBalance(bal, amount) == bal < amount

\* Mutant of IdentityMapLoad: every query overwrites the loaded object with
\* the stored row (as with populate_existing).
IdentityMapReload(cached, stored) == stored

\* Session identity map: a query returns the object the session already holds,
\* with the attribute values it was loaded with, unless it was expired.
IdentityMapLoad(cached, stored) == IF cached # NotLoaded THEN cached ELSE stored

\* Mutant of NewBalance: `account.balance = amount`
NewBalanceAssign(bal, delta) == delta

\* crud.py:68 `account.balance += amount`
NewBalance(bal, delta) == bal + delta

\* Mutant of NewTransaction: completed_at is stamped on every row
NewTransactionStamped(rid, initiator, type, amount, st, recipient, addr, hash, bank) ==
    [initiator_user_id |-> initiator, type |-> type, amount |-> amount,
     status |-> st, recipient_user_id |-> recipient,
     recipient_web3_address |-> addr, tx_hash |-> hash,
     bank_account_id |-> bank, completed_at |-> "set", rid |-> rid]

\* crud.py:87-104: the row create_transaction inserts; completed_at is set
\* only when status == 'completed'.  A NULL recipient_user_id or
\* bank_account_id is written 0.  rid (the request that inserted the row) is
\* a history field, not a column.
NewTransaction(rid, initiator, type, amount, st, recipient, addr, hash, bank) ==
    [initiator_user_id |-> initiator, type |-> type, amount |-> amount,
     status |-> st, recipient_user_id |-> recipient,
     recipient_web3_address |-> addr, tx_hash |-> hash,
     bank_account_id |-> bank,
     completed_at |-> IF st = "completed" THEN "set" ELSE Null,
     rid |-> rid]

\* A request that has not arrived yet.  seen and rseen are the balances of
\* the Account objects the request's session holds (the caller's and the
\* transfer recipient's); gw is the outcome of the gateway call; writes
\* (history) counts the update_balance calls of the request that committed,
\* sends (history) the calls of transfer_hkdc.  wl is the status of the
\* destination's whitelist row as the whitelist check read it (for a request
\* that ended before that check: as it was when the request ended); wl_sent
\* (history) is the status the row had when the gateway was called.
NoRequest ==
    [op |-> "none", pc |-> "idle", rid |-> 0, user |-> 0, amount |-> 0,
     to |-> 0, addr |-> Null, bank |-> 0, name |-> Null, idno |-> Null,
     seen |-> NotLoaded, rseen |-> NotLoaded, gw |-> "none", hash |-> Null,
     wl |-> "none", wl_sent |-> "none", new_status |-> Null,
     address_id |-> 0, label |-> Null,
     writes |-> 0, sends |-> 0, result |-> "none"]

\* The response is sent and the request's session is closed (the objects it
\* held are gone with it).
Finish(r, res) ==
    [r EXCEPT !.pc = "done", !.result = res,
              !.seen = NotLoaded, !.rseen = NotLoaded]

\* ------------------------------------------------------------------- Init
InitialBalance(u) == IF u = 1 THEN 100 ELSE 0

InitialTransactions ==
    << NewTransaction(0, 1, "deposit_web3", InitialBalance(1), "completed",
                      0, Null, Null, 0) >>

\* A populated database (users 1, 2, 3; no row exists for user 4, whose
\* entries below are placeholders until register_user inserts the rows):
\* user 1 is active and holds 100 from one on-chain
\* deposit; users 2 and 3 are both active (KYC done) or both unverified;
\* address 0xA is whitelisted and normal, 0xB whitelisted and frozen, 0xC is
\* not in the whitelist.  Times are counted in requests served: 0 is a time
\* before the first request.
Init ==
    /\ \E act \in {{}, {2, 3}} :
        /\ status = [u \in AllUsers |->
                        IF u = 1 \/ u \in act THEN "active"
                        ELSE IF u \in Users THEN "unverified" ELSE Null]
        /\ full_name = [u \in AllUsers |->
                        IF u = 1 \/ u \in act THEN "Ann" ELSE Null]
        /\ identity_card_number = [u \in AllUsers |->
                        IF u = 1 THEN "ID1"
                        ELSE IF u \in act THEN (IF u = 2 THEN "ID2" ELSE "ID3")
                        ELSE Null]
    /\ users = Users
    /\ accounts = Users
    /\ balance = [u \in AllUsers |-> InitialBalance(u)]
    /\ applied = [u \in AllUsers |-> InitialBalance(u)]
    /\ whitelist_rows = <<"0xA", "0xB">>
    /\ whitelist = [a \in Addresses |->
                        IF a = "0xA" THEN "normal"
                        ELSE IF a = "0xB" THEN "frozen" ELSE "absent"]
    /\ label = [a \in Addresses |-> IF a = "0xC" THEN Null ELSE "cold"]
    /\ frozen_at = [a \in Addresses |-> IF a = "0xB" THEN 0 ELSE NoTime]
    /\ transactions = InitialTransactions
    /\ req = [p \in Requests |-> NoRequest]

\* ---------------------------------------------------------------- requests

\* Request p arrives (requests are numbered in order of arrival): r is the
\* request with its position after get_current_user, the handler's status
\* check on the user row that get_current_user loaded, and the handler's
\* first query.  (A user's status only ever changes from unverified to
\* active, and a request that reads unverified ends at once, so taking the
\* user row and the first query in one step loses no behaviour.)
Arrive(p, r) ==
    /\ req[p].pc = "idle"
    /\ IF p = 1 THEN TRUE ELSE req[p - 1].pc # "idle"
    /\ req' = [req EXCEPT ![p] = [r EXCEPT !.rid = p]]

Begin(p, r) ==
    /\ Arrive(p, r)
    /\ UNCHANGED <<db, applied>>

Request(op, u, amount) ==
    [NoRequest EXCEPT !.op = op, !.user = u, !.amount = amount]

At(p, op, pc) == req[p].op = op /\ req[p].pc = pc

\* crud.py:65-71 update_balance, the commit: the UPDATE writes the value
\* computed in Python from the balance the session holds.
UpdateBalanceCommit(u, loaded, delta) ==
    /\ balance' = [balance EXCEPT ![u] = NewBalance(loaded, delta)]
    /\ applied' = [applied EXCEPT ![u] = @ + delta]

\* crud.py:104-109: insert and commit one transactions row
Insert(tx) == transactions' = Append(transactions, tx)

\* ------------------------------------------------- deposits (main.py:144-185)

\* crud.py:66: update_balance queries the Account, which the session does
\* not hold yet
DepositLoaded(r) ==
    [r EXCEPT !.seen = IdentityMapLoad(r.seen, balance[r.user]),
              !.pc = "commit"]

\* main.py:145-160: get_current_user, the status check, update_balance's query
AlipayDeposit_Begin(p) ==
    \E u \in Initiators, a \in Amounts :
        LET r == Request("deposit_alipay", u, a) IN
        Begin(p, IF status[u] # "active"
                 THEN Finish(r, "NotActive")
                 ELSE DepositLoaded(r))

\* main.py:181-183: confirm_web3_deposit has no status check
Web3Deposit_Begin(p) ==
    \E u \in Initiators, a \in Amounts :
        Begin(p, DepositLoaded(Request("deposit_web3", u, a)))

IsDeposit(p) == req[p].op \in {"deposit_alipay", "deposit_web3"}

\* crud.py:68-69
Deposit_Commit(p) ==
    /\ IsDeposit(p) /\ req[p].pc = "commit"
    /\ UpdateBalanceCommit(req[p].user, req[p].seen, req[p].amount)
    /\ req' = [req EXCEPT ![p] = [@ EXCEPT !.writes = @ + 1, !.pc = "record"]]
    /\ UNCHANGED <<user_tables, whitelist_table,
                   transactions>>

\* main.py:163-169, 184
Deposit_Record(p) ==
    /\ IsDeposit(p) /\ req[p].pc = "record"
    /\ Insert(NewTransaction(req[p].rid, req[p].user, req[p].op, req[p].amount,
                             "completed", 0, Null, Null, 0))
    /\ req' = [req EXCEPT ![p] = Finish(@, "ok")]
    /\ UNCHANGED <<user_tables, balance, whitelist_table,
                   applied>>

\* --------------------------------------- internal_transfer (main.py:188-242)

\* Mutant of TransferChecked: the recipient's email is not compared with the
\* sender's
TransferCheckedNoSelfCheck(r) ==
    LET seen == IF r.seen # NotLoaded THEN r.seen ELSE balance[r.user]
        r1 == [r EXCEPT !.seen = seen] IN
    IF seen < r.amount THEN Finish(r1, "InsufficientFunds")
    ELSE [r1 EXCEPT !.pc = "check_recipient"]

\* main.py:204-210: the sender's Account is loaded into the session
TransferChecked(r) ==
    LET seen == IdentityMapLoad(r.seen, balance[r.user])
        r1 == [r EXCEPT !.seen = seen] IN
    IF InsufficientBalance(seen, r.amount) THEN Finish(r1, "InsufficientFunds")
    ELSE IF r.to = r.user THEN Finish(r1, "SelfTransfer")
    ELSE [r1 EXCEPT !.pc = "check_recipient"]

\* main.py:189-210
Transfer_Begin(p) ==
    \E u \in Initiators, a \in Amounts, t \in Emails :
        LET r == [Request("internal_transfer", u, a) EXCEPT !.to = t] IN
        Begin(p, IF status[u] # "active"
                 THEN Finish(r, "NotActive")
                 ELSE TransferChecked(r))

\* main.py:212-226
Transfer_CheckRecipient(p) ==
    /\ At(p, "internal_transfer", "check_recipient")
    /\ req' = [req EXCEPT ![p] =
                IF @.to \notin Users
                THEN Finish(@, "RecipientNotFound")
                ELSE IF status[@.to] # "active"
                THEN Finish(@, "RecipientNotActive")
                ELSE [@ EXCEPT !.pc = "debit"]]
    /\ UNCHANGED <<db, applied>>

\* main.py:229: update_balance on the sender's Account, which the session
\* holds since the balance check
Transfer_Debit(p) ==
    /\ At(p, "internal_transfer", "debit")
    /\ UpdateBalanceCommit(req[p].user,
                           IdentityMapLoad(req[p].seen, balance[req[p].user]),
                           -req[p].amount)
    /\ req' = [req EXCEPT ![p] = [@ EXCEPT !.writes = @ + 1, !.pc = "credit_load"]]
    /\ UNCHANGED <<user_tables, whitelist_table,
                   transactions>>

\* main.py:230, crud.py:66: the recipient's Account is queried
Transfer_CreditLoad(p) ==
    /\ At(p, "internal_transfer", "credit_load")
    /\ req' = [req EXCEPT ![p] =
                [@ EXCEPT !.rseen = IdentityMapLoad(@, balance[req[p].to]),
                          !.pc = "credit_commit"]]
    /\ UNCHANGED <<db, applied>>

\* crud.py:68-69 for the recipient
Transfer_CreditCommit(p) ==
    /\ At(p, "internal_transfer", "credit_commit")
    /\ UpdateBalanceCommit(req[p].to, req[p].rseen, req[p].amount)
    /\ req' = [req EXCEPT ![p] = [@ EXCEPT !.writes = @ + 1, !.pc = "record"]]
    /\ UNCHANGED <<user_tables, whitelist_table,
                   transactions>>

\* main.py:233-242
Transfer_Record(p) ==
    /\ At(p, "internal_transfer", "record")
    /\ Insert(NewTransaction(req[p].rid, req[p].user, "internal_transfer",
                             req[p].amount, "completed", req[p].to,
                             Null, Null, 0))
    /\ req' = [req EXCEPT ![p] = Finish(@, "ok")]
    /\ UNCHANGED <<user_tables, balance, whitelist_table,
                   applied>>

\* ---------------------------------------- withdraw_to_bank (main.py:245-278)

\* main.py:255-263: the Account is loaded into the session; then the user's
\* bank cards are listed
BankWithdrawChecked(r) ==
    LET seen == IdentityMapLoad(r.seen, balance[r.user])
        r1 == [r EXCEPT !.seen = seen] IN
    IF InsufficientBalance(seen, r.amount) THEN Finish(r1, "InsufficientFunds")
    ELSE IF BankAccountOwner(r.bank) # r.user
    THEN Finish(r1, "BankAccountNotOwned")
    ELSE [r1 EXCEPT !.pc = "debit"]

\* main.py:246-263
BankWithdraw_Begin(p) ==
    \E u \in Initiators, a \in Amounts, b \in BankAccounts :
        LET r == [Request("withdraw_bank", u, a) EXCEPT !.bank = b] IN
        Begin(p, IF status[u] # "active"
                 THEN Finish(r, "NotActive")
                 ELSE BankWithdrawChecked(r))

\* main.py:266
BankWithdraw_Debit(p) ==
    /\ At(p, "withdraw_bank", "debit")
    /\ UpdateBalanceCommit(req[p].user,
                           IdentityMapLoad(req[p].seen, balance[req[p].user]),
                           -req[p].amount)
    /\ req' = [req EXCEPT ![p] = [@ EXCEPT !.writes = @ + 1, !.pc = "record"]]
    /\ UNCHANGED <<user_tables, whitelist_table,
                   transactions>>

\* main.py:268-278
BankWithdraw_Record(p) ==
    /\ At(p, "withdraw_bank", "record")
    /\ Insert(NewTransaction(req[p].rid, req[p].user, "withdraw_bank",
                             req[p].amount, "completed", 0, Null, Null,
                             req[p].bank))
    /\ req' = [req EXCEPT ![p] = Finish(@, "ok")]
    /\ UNCHANGED <<user_tables, balance, whitelist_table,
                   applied>>

\* ---------------------------------------- withdraw_to_web3 (main.py:281-336)

\* Mutant of WhitelistRejection: the status of the row is not looked at
WhitelistRejectionNoFrozen(entry) ==
    IF entry = "absent" THEN "NotWhitelisted" ELSE "none"

\* main.py:299-312: the whitelist checks on the row that
\* get_whitelist_address_by_address returned ("absent": no row)
WhitelistRejection(entry) ==
    IF entry = "absent" THEN "NotWhitelisted"
    ELSE IF entry = "frozen" THEN "AddressFrozen"
    ELSE "none"

\* blockchain_service.py:30-44: transfer_hkdc returns the receipt that
\* wait_for_transaction_receipt hands back, whatever the receipt's status
\* (1: the transfer succeeded; 0: it was mined and reverted), and raises when
\* the node refuses the transaction or no receipt arrives within the timeout.
GatewayReturnsReceipt(outcome) == outcome \in {"success", "reverted"}

\* main.py:317: the hash of the transaction sent for request rid; distinct
\* transactions have distinct hashes
TxHash(rid) == "0x" \o ToString(rid)

\* main.py:291-293: the Account is loaded into the session
Web3WithdrawChecked(r) ==
    LET seen == IdentityMapLoad(r.seen, balance[r.user])
        r1 == [r EXCEPT !.seen = seen] IN
    IF InsufficientBalance(seen, r.amount) THEN Finish(r1, "InsufficientFunds")
    ELSE [r1 EXCEPT !.pc = "check_whitelist"]

\* main.py:282-293
Web3Withdraw_Begin(p) ==
    \E u \in Initiators, a \in Web3Amounts, d \in Addresses :
        LET r == [Request("withdraw_web3", u, a) EXCEPT
                    !.addr = d, !.wl = whitelist[d]] IN
        Begin(p, IF status[u] # "active"
                 THEN Finish(r, "NotActive")
                 ELSE Web3WithdrawChecked(r))

\* main.py:296-312
Web3Withdraw_CheckWhitelist(p) ==
    /\ At(p, "withdraw_web3", "check_whitelist")
    /\ LET entry == whitelist[req[p].addr]
           why == WhitelistRejection(entry) IN
       req' = [req EXCEPT ![p] =
                IF why # "none" THEN Finish([@ EXCEPT !.wl = entry], why)
                ELSE [@ EXCEPT !.wl = entry, !.pc = "send"]]
    /\ UNCHANGED <<db, applied>>

\* Mutant of AfterSend: a call that timed out ends the request at once
AbandonAfterSend(outcome) ==
    IF outcome \in {"success", "reverted"} THEN "debit"
    ELSE IF outcome = "timeout" THEN "done" ELSE "record_failed"

\* Mutant of AfterSend: the call is made again when it timed out
RetryAfterSend(outcome) ==
    IF outcome \in {"success", "reverted"} THEN "debit"
    ELSE IF outcome = "timeout" THEN "send" ELSE "record_failed"

\* main.py:315-331: where the handler goes after transfer_hkdc: on to the
\* debit when a receipt came back, into the except branch when it raised;
\* neither the handler nor transfer_hkdc calls again
AfterSend(outcome) ==
    IF GatewayReturnsReceipt(outcome) THEN "debit" ELSE "record_failed"

\* main.py:315-317, 331: the gateway call and its outcome
Web3Withdraw_Send(p) ==
    /\ At(p, "withdraw_web3", "send")
    /\ \E outcome \in GatewayOutcomes :
        req' = [req EXCEPT ![p] =
                 [@ EXCEPT !.gw = outcome, !.sends = @ + 1,
                           !.wl_sent = whitelist[req[p].addr],
                           !.hash = IF GatewayReturnsReceipt(outcome)
                                    THEN TxHash(req[p].rid) ELSE Null,
                           !.pc = AfterSend(outcome)]]
    /\ UNCHANGED <<db, applied>>

\* main.py:319
Web3Withdraw_Debit(p) ==
    /\ At(p, "withdraw_web3", "debit")
    /\ UpdateBalanceCommit(req[p].user,
                           IdentityMapLoad(req[p].seen, balance[req[p].user]),
                           -req[p].amount)
    /\ req' = [req EXCEPT ![p] = [@ EXCEPT !.writes = @ + 1, !.pc = "record"]]
    /\ UNCHANGED <<user_tables, whitelist_table,
                   transactions>>

\* main.py:320-330
Web3Withdraw_RecordCompleted(p) ==
    /\ At(p, "withdraw_web3", "record")
    /\ Insert(NewTransaction(req[p].rid, req[p].user, "withdraw_web3",
                             req[p].amount, "completed", 0, req[p].addr,
                             req[p].hash, 0))
    /\ req' = [req EXCEPT ![p] = Finish(@, "ok")]
    /\ UNCHANGED <<user_tables, balance, whitelist_table,
                   applied>>

\* main.py:331-336: the except branch; the response carries str(e)
Web3Withdraw_RecordFailed(p) ==
    /\ At(p, "withdraw_web3", "record_failed")
    /\ Insert(NewTransaction(req[p].rid, req[p].user, "withdraw_web3",
                             req[p].amount, "failed", 0, req[p].addr,
                             Null, 0))
    /\ req' = [req EXCEPT ![p] = Finish(@, "GatewayError")]
    /\ UNCHANGED <<user_tables, balance, whitelist_table,
                   applied>>

\* ------------------------------ submit_kyc (main.py:102-123, crud.py:34-52)

\* crud.py:40-42: some row has this identity_card_number and it is not the
\* caller's
IdClaimedByOther(u, idno) ==
    \E v \in Users : identity_card_number[v] = idno /\ v # u

\* Mutant of UniqueIdViolation: the column is not declared unique
NoUniqueConstraint(u, idno) == FALSE

\* models.py:12 unique=True: the UPDATE is refused when another row holds
\* the value
UniqueIdViolation(u, idno) ==
    \E v \in Users \ {u} : identity_card_number[v] = idno

\* Mutant of KycStatus: a submission leaves the user waiting for review
KycStatusPending == "unverified"

\* crud.py:48: the status submit_kyc_info writes
KycStatus == "active"

\* crud.py:35-43
KycChecked(r) ==
    IF IdClaimedByOther(r.user, r.idno) THEN Finish(r, "DuplicateIdentity")
    ELSE [r EXCEPT !.pc = "commit"]

\* main.py:103-118: the status check on the user row get_current_user
\* loaded, then submit_kyc_info up to its uniqueness query
Kyc_Begin(p) ==
    \E u \in Users, n \in FullNames, i \in NewIds :
        LET r == [Request("submit_kyc", u, 0) EXCEPT !.name = n, !.idno = i] IN
        Begin(p, IF status[u] = "active"
                 THEN Finish(r, "AlreadyActive")
                 ELSE KycChecked(r))

\* crud.py:46-50: the UPDATE of the user row and its commit; a violated
\* unique constraint raises IntegrityError, which submit_kyc does not catch
Kyc_Commit(p) ==
    /\ At(p, "submit_kyc", "commit")
    /\ LET u == req[p].user IN
       IF UniqueIdViolation(u, req[p].idno)
       THEN /\ req' = [req EXCEPT ![p] = Finish(@, "IntegrityError")]
            /\ UNCHANGED <<status, full_name, identity_card_number>>
       ELSE /\ full_name' = [full_name EXCEPT ![u] = req[p].name]
            /\ identity_card_number' =
                    [identity_card_number EXCEPT ![u] = req[p].idno]
            /\ status' = [status EXCEPT ![u] = KycStatus]
            /\ req' = [req EXCEPT ![p] = Finish(@, "ok")]
    /\ UNCHANGED <<users, accounts, balance, whitelist_table, transactions, applied>>

\* ------------------------ activate_user (main.py:125-129, crud.py:54-60)

\* main.py:127-128: the status check on the user row get_current_user
\* loaded; no KYC data is asked for
Activate_Begin(p) ==
    \E u \in Initiators :
        LET r == Request("activate_user", u, 0) IN
        Begin(p, IF status[u] = "active"
                 THEN Finish(r, "AlreadyActive")
                 ELSE [r EXCEPT !.pc = "commit"])

\* crud.py:55-59 update_user_status(status='active'): the UPDATE and its
\* commit
Activate_Commit(p) ==
    /\ At(p, "activate_user", "commit")
    /\ status' = [status EXCEPT ![req[p].user] = "active"]
    /\ req' = [req EXCEPT ![p] = Finish(@, "ok")]
    /\ UNCHANGED <<users, accounts, full_name, identity_card_number, balance,
                   whitelist_table, transactions, applied>>

\* -------------------------- register_user (main.py:74-78, crud.py:14-30)

\* main.py:76-77: the email is looked up
Register_Begin(p) ==
    \E e \in RegisterEmails :
        LET r == Request("register_user", e, 0) IN
        Begin(p, IF e \in users
                 THEN Finish(r, "EmailTaken")
                 ELSE [r EXCEPT !.pc = "commit_user"])

\* crud.py:17-23: the users row is inserted and committed; status takes the
\* column default (models.py:15), full_name and identity_card_number are
\* NULL.  A row with the same email inserted meanwhile violates the unique
\* constraint on users.email (models.py:9).
Register_CommitUser(p) ==
    /\ At(p, "register_user", "commit_user")
    /\ LET u == req[p].user IN
       IF u \in users
       THEN /\ req' = [req EXCEPT ![p] = Finish(@, "IntegrityError")]
            /\ UNCHANGED <<users, status>>
       ELSE /\ users' = users \cup {u}
            /\ status' = [status EXCEPT ![u] = "unverified"]
            /\ req' = [req EXCEPT ![p] = [@ EXCEPT !.pc = "commit_account"]]
    /\ UNCHANGED <<accounts, full_name, identity_card_number, balance,
                   whitelist_table, transactions, applied>>

\* crud.py:26-28: the accounts row (balance 0.0) is inserted and committed
\* in a second transaction
Register_CommitAccount(p) ==
    /\ At(p, "register_user", "commit_account")
    /\ accounts' = accounts \cup {req[p].user}
    /\ balance' = [balance EXCEPT ![req[p].user] = 0]
    /\ req' = [req EXCEPT ![p] = Finish(@, "ok")]
    /\ UNCHANGED <<users, status, full_name, identity_card_number, whitelist_table,
                   transactions, applied>>

\* ------------- update_whitelist_status (main.py:393-404, crud.py:200-213)

\* datetime.utcnow() in the handler of request p.  The whitelist handlers
\* below run in the step in which their request arrives and requests are
\* numbered in order of arrival, so the number of the request is its time.
Now(p) == p

\* Mutant of FrozenAt: the time is written whatever the status
FrozenAtAlways(s, now) == now

\* crud.py:206-209: frozen_at is the time of the call when the status
\* written is frozen, NULL otherwise
FrozenAt(s, now) == IF s = "frozen" THEN now ELSE NoTime

\* main.py:399-403, crud.py:201-211: the status value is validated, the row
\* is looked up by id, and its status and frozen_at are written and
\* committed.  (Rows are never deleted and the values written do not depend
\* on the values read, so the lookup and the commit are taken in one step.)
WhitelistStatus_Update(p) ==
    \E id \in WhitelistIds, s \in NewStatuses :
        LET r == [Request("update_whitelist_status", 0, 0) EXCEPT
                    !.address_id = id, !.new_status = s] IN
        IF s \notin {"normal", "frozen"}
        THEN Begin(p, Finish(r, "InvalidStatus"))
        ELSE IF id \notin DOMAIN whitelist_rows
        THEN Begin(p, Finish(r, "WhitelistNotFound"))
        ELSE LET a == whitelist_rows[id] IN
             /\ Arrive(p, Finish([r EXCEPT !.addr = a], "ok"))
             /\ whitelist' = [whitelist EXCEPT ![a] = s]
             /\ frozen_at' = [frozen_at EXCEPT ![a] = FrozenAt(s, Now(p))]
             /\ UNCHANGED <<user_tables, balance, whitelist_rows, label,
                            transactions, applied>>

\* ---------- add_address_to_global_whitelist (main.py:382-391, crud.py:192-197)

\* main.py:386: startswith("0x") and len == 42.  The members of Addresses
\* stand for well-formed 42-character addresses; "0x" is too short.
WellFormedAddress(a) == a \in Addresses

\* Mutant of WhitelistAddressTaken: the column is not declared unique
WhitelistAddressNotUnique(a) == FALSE

\* models.py:72 unique=True: the INSERT is refused when a row holds the
\* address
WhitelistAddressTaken(a) == \E i \in DOMAIN whitelist_rows : whitelist_rows[i] = a

\* main.py:386-389: the format check, then the lookup by address
WhitelistAdd_Begin(p) ==
    \E a \in AddAddresses, l \in AddLabels :
        LET r == [Request("add_to_whitelist", 0, 0) EXCEPT
                    !.addr = a, !.label = l] IN
        Begin(p, IF ~WellFormedAddress(a)
                 THEN Finish(r, "InvalidAddress")
                 ELSE IF whitelist[a] # "absent"
                 THEN Finish(r, "DuplicateAddress")
                 ELSE [r EXCEPT !.pc = "commit"])

\* crud.py:193-195: the row is inserted and committed; status takes the
\* column default normal and frozen_at is NULL (models.py:74-75).  A
\* violated unique constraint raises IntegrityError, which the handler does
\* not catch.
WhitelistAdd_Commit(p) ==
    /\ At(p, "add_to_whitelist", "commit")
    /\ LET a == req[p].addr IN
       IF WhitelistAddressTaken(a)
       THEN /\ req' = [req EXCEPT ![p] = Finish(@, "IntegrityError")]
            /\ UNCHANGED whitelist_table
       ELSE /\ whitelist_rows' = Append(whitelist_rows, a)
            /\ whitelist' = [whitelist EXCEPT ![a] = "normal"]
            /\ label' = [label EXCEPT ![a] = req[p].label]
            /\ frozen_at' = [frozen_at EXCEPT ![a] = NoTime]
            /\ req' = [req EXCEPT ![p] = Finish(@, "ok")]
    /\ UNCHANGED <<user_tables, balance, transactions, applied>>

\* ------------------------------------------------------------------- Next
Next ==
    \E p \in Requests :
        \/ AlipayDeposit_Begin(p)
        \/ Web3Deposit_Begin(p)
        \/ Deposit_Commit(p)
        \/ Deposit_Record(p)
        \/ Transfer_Begin(p)
        \/ Transfer_CheckRecipient(p)
        \/ Transfer_Debit(p)
        \/ Transfer_CreditLoad(p)
        \/ Transfer_CreditCommit(p)
        \/ Transfer_Record(p)
        \/ BankWithdraw_Begin(p)
        \/ BankWithdraw_Debit(p)
        \/ BankWithdraw_Record(p)
        \/ Web3Withdraw_Begin(p)
        \/ Web3Withdraw_CheckWhitelist(p)
        \/ Web3Withdraw_Send(p)
        \/ Web3Withdraw_Debit(p)
        \/ Web3Withdraw_RecordCompleted(p)
        \/ Web3Withdraw_RecordFailed(p)
        \/ Kyc_Begin(p)
        \/ Kyc_Commit(p)
        \/ Activate_Begin(p)
        \/ Activate_Commit(p)
        \/ WhitelistStatus_Update(p)
        \/ WhitelistAdd_Begin(p)
        \/ WhitelistAdd_Commit(p)
        \/ Register_Begin(p)
        \/ Register_CommitUser(p)
        \/ Register_CommitAccount(p)

Spec == Init /\ [][Next]_vars

\* The steps of request p after its arrival
Step(p) ==
    \/ Deposit_Commit(p)
    \/ Deposit_Record(p)
    \/ Transfer_CheckRecipient(p)
    \/ Transfer_Debit(p)
    \/ Transfer_CreditLoad(p)
    \/ Transfer_CreditCommit(p)
    \/ Transfer_Record(p)
    \/ BankWithdraw_Debit(p)
    \/ BankWithdraw_Record(p)
    \/ Web3Withdraw_CheckWhitelist(p)
    \/ Web3Withdraw_Send(p)
    \/ Web3Withdraw_Debit(p)
    \/ Web3Withdraw_RecordCompleted(p)
    \/ Web3Withdraw_RecordFailed(p)
    \/ Kyc_Commit(p)
    \/ Activate_Commit(p)
    \/ WhitelistAdd_Commit(p)
    \/ Register_CommitUser(p)
    \/ Register_CommitAccount(p)

\* Each handler runs on a thread of the server's pool from its first line to
\* its return or raise: a request that has arrived and can take a step
\* eventually takes it (every call it makes returns or raises; the gateway
\* call ends with a receipt, an error or the receipt timeout).  Nothing
\* forces a new request to arrive.
FairSpec == Spec /\ \A p \in Requests : WF_vars(Step(p))

\* ------------------------------------------------------------ properties

Done(p) == req[p].pc = "done"

\* p is the only request that has arrived
Alone(p) == \A q \in Requests \ {p} : req[q].pc = "idle"

Quiescent == \A p \in Requests : req[p].pc \in {"idle", "done"}

DebitOps == {"internal_transfer", "withdraw_bank", "withdraw_web3"}

Total(f) == f[1] + f[2] + f[3]

InitialBalances == [u \in AllUsers |-> InitialBalance(u)]

\* C1: in every reachable state, whatever the interleaving of debit and
\* credit requests, no account balance is negative (in particular not after
\* two debits that both read a sufficient balance and both deducted).
C1_BalanceNeverNegative == \A u \in Users : balance[u] >= 0

\* Two debit requests on one account, together exceeding the balance it
\* started with, both passed the balance check and both committed their debit.
C1_Witness ==
    \E p, q \in Requests :
        /\ p # q
        /\ req[p].user = req[q].user
        /\ req[p].op \in DebitOps /\ req[q].op \in DebitOps
        /\ req[p].writes > 0 /\ req[q].writes > 0
        /\ req[p].amount + req[q].amount > InitialBalance(req[p].user)

\* C2: when all requests have ended, every balance is the initial balance
\* plus the deltas of all update_balance calls that committed (no applied
\* delta is lost or applied twice).
C2_NoLostUpdate == Quiescent => \A u \in Users : balance[u] = applied[u]

\* C3: internal transfer is atomic.  For a transfer that is the only request
\* to have arrived: in every state the balances add up to what they added up
\* to before it; once it has failed no balance has changed; once it has
\* succeeded the sender holds exactly amount less and the recipient exactly
\* amount more.
C3_TransferAtomic ==
    \A p \in Requests :
        (req[p].op = "internal_transfer" /\ Alone(p)) =>
            /\ Total(balance) = Total(InitialBalances)
            /\ (Done(p) /\ req[p].result # "ok") => balance = InitialBalances
            /\ (Done(p) /\ req[p].result = "ok") =>
                    balance = [InitialBalances EXCEPT
                                ![req[p].user] = @ - req[p].amount,
                                ![req[p].to] = @ + req[p].amount]

\* C4: two transfers of 60 each from the same active sender holding 100 to
\* two different active recipients, however they interleave: exactly one
\* succeeds, the other fails with InsufficientFunds, and the sender ends
\* with exactly 40.
C4_ExactlyOneTransferSucceeds ==
    \A p, q \in Requests :
        ( /\ p # q
          /\ \A r \in Requests \ {p, q} : req[r].pc = "idle"
          /\ Done(p) /\ Done(q)
          /\ req[p].op = "internal_transfer" /\ req[q].op = "internal_transfer"
          /\ req[p].user = req[q].user
          /\ InitialBalance(req[p].user) = 100
          /\ req[p].amount = 60 /\ req[q].amount = 60
          /\ req[p].to # req[q].to
          /\ req[p].to \in Users \ {req[p].user}
          /\ req[q].to \in Users \ {req[p].user}
          /\ status[req[p].to] = "active" /\ status[req[q].to] = "active" )
        => /\ {req[p].result, req[q].result} = {"ok", "InsufficientFunds"}
           /\ balance[req[p].user] = 40

\* C5: withdraw_to_web3 changes the balance only after the external
\* transfer is confirmed to have succeeded: it has written no balance before
\* the gateway call, and none at all when the gateway outcome is anything
\* but a successful transfer.
C5_DebitOnlyAfterConfirmedSuccess ==
    \A p \in Requests :
        req[p].op = "withdraw_web3" =>
            /\ req[p].gw = "none" => req[p].writes = 0
            /\ req[p].writes > 0 => req[p].gw = "success"

RowsOf(p) ==
    {i \in 1..Len(transactions) : transactions[i].rid = req[p].rid}

\* C6: an active user with balance B >= A withdraws A to a whitelisted
\* address in normal status and the gateway returns success with hash h (the
\* request being the only one): the end state has balance B - A and exactly
\* one new Transaction, of type withdraw_web3, status completed, amount A and
\* tx_hash h.
C6_Web3WithdrawSuccess ==
    \A p \in Requests :
        ( /\ req[p].op = "withdraw_web3" /\ Done(p) /\ Alone(p)
          /\ status[req[p].user] = "active"
          /\ InitialBalance(req[p].user) >= req[p].amount
          /\ whitelist[req[p].addr] = "normal"
          /\ req[p].gw = "success" )
        => /\ req[p].result = "ok"
           /\ balance = [InitialBalances EXCEPT ![req[p].user] = @ - req[p].amount]
           /\ Len(transactions) = Len(InitialTransactions) + 1
           /\ LET tx == transactions[Len(transactions)] IN
                /\ tx.initiator_user_id = req[p].user
                /\ tx.type = "withdraw_web3"
                /\ tx.status = "completed"
                /\ tx.amount = req[p].amount
                /\ tx.tx_hash = req[p].hash /\ tx.tx_hash # Null
                /\ tx.recipient_web3_address = req[p].addr

\* The scenario of the specification with amount 60: 100 - 60 = 40.
C6_Witness ==
    \E p \in Requests :
        /\ req[p].op = "withdraw_web3" /\ Done(p) /\ Alone(p)
        /\ req[p].gw = "success" /\ req[p].result = "ok"
        /\ req[p].amount = 60 /\ balance[req[p].user] = 40
        /\ Len(transactions) = Len(InitialTransactions) + 1

\* C7: when the gateway definitively rejects a web3 withdrawal (the node
\* refuses the transaction, or the network mines and reverts it), the request
\* being the only one: the balance is unchanged, exactly one new Transaction
\* of type withdraw_web3 is recorded, with status failed and no tx_hash, and
\* the caller gets the rejection; and every withdraw_web3 Transaction
\* recorded as failed belongs to a request that changed no balance.
C7_RejectionRecordedAsFailed ==
    /\ \A p \in Requests :
        ( /\ req[p].op = "withdraw_web3" /\ Done(p) /\ Alone(p)
          /\ req[p].gw \in {"rejected", "reverted"} )
        => /\ balance = InitialBalances
           /\ req[p].result = "GatewayError"
           /\ Len(transactions) = Len(InitialTransactions) + 1
           /\ LET tx == transactions[Len(transactions)] IN
                /\ tx.type = "withdraw_web3"
                /\ tx.status = "failed"
                /\ tx.tx_hash = Null
    /\ \A i \in 1..Len(transactions) :
        (transactions[i].type = "withdraw_web3" /\ transactions[i].status = "failed")
        => req[transactions[i].rid].writes = 0

WhitelistReason(entry) ==
    IF entry = "absent" THEN "NotWhitelisted" ELSE "AddressFrozen"

\* C8 as stated: a withdraw_to_web3 request whose destination is not in the
\* whitelist always fails with NotWhitelisted, one whose destination is a
\* frozen entry always fails with AddressFrozen; the balance is unchanged and
\* the gateway is not invoked.
C8_AlwaysWhitelistReason ==
    \A p \in Requests :
        (req[p].op = "withdraw_web3" /\ Done(p)
            /\ req[p].wl \in {"absent", "frozen"})
        => /\ req[p].result = WhitelistReason(req[p].wl)
           /\ req[p].writes = 0
           /\ req[p].gw = "none"

\* C8 amended: such a request always fails, writes no balance and never
\* invokes the gateway; its reason is NotWhitelisted (absent) or
\* AddressFrozen (frozen) unless the status check or the balance check, which
\* come first, already rejected it with NotActive or InsufficientFunds; for
\* an active initiator with a sufficient balance (the request being the only
\* one) it is the whitelist reason.
C8_WhitelistRejects ==
    \A p \in Requests :
        (req[p].op = "withdraw_web3" /\ Done(p)
            /\ req[p].wl \in {"absent", "frozen"})
        => /\ req[p].result \in
                {WhitelistReason(req[p].wl), "NotActive", "InsufficientFunds"}
           /\ req[p].writes = 0
           /\ req[p].gw = "none"
           /\ RowsOf(p) = {}
           /\ ( /\ Alone(p)
                /\ status[req[p].user] = "active"
                /\ InitialBalance(req[p].user) >= req[p].amount )
              => req[p].result = WhitelistReason(req[p].wl)

\* One request was rejected because the address is absent, another because
\* it is frozen.
C8_Witness ==
    \E p, q \in Requests :
        /\ req[p].op = "withdraw_web3" /\ Done(p)
        /\ req[p].wl = "absent" /\ req[p].result = "NotWhitelisted"
        /\ req[q].op = "withdraw_web3" /\ Done(q)
        /\ req[q].wl = "frozen" /\ req[q].result = "AddressFrozen"

UniqueIds ==
    \A u, v \in Users :
        (u # v /\ identity_card_number[u] # Null)
            => identity_card_number[u] # identity_card_number[v]

HeldByOther(u, idno) ==
    \E v \in Users \ {u} : identity_card_number[v] = idno

UserRows == <<status, full_name, identity_card_number>>

\* A submit_kyc request of unverified user B arrives with an id that another
\* user holds: it ends with the duplicate-identity error and no user row
\* changes.
KycWithBoundIdRejected ==
    \A p \in Requests :
        ( /\ req[p].pc = "idle" /\ req'[p].op = "submit_kyc"
          /\ status[req'[p].user] = "unverified"
          /\ HeldByOther(req'[p].user, req'[p].idno) )
        => /\ req'[p].result = "DuplicateIdentity"
           /\ req'[p].pc = "done"
           /\ UserRows' = UserRows

\* No step of a submit_kyc request changes a user row, or succeeds, while
\* another user holds the id it submits.
KycNeverTakesBoundId ==
    \A p \in Requests :
        ( /\ req[p].op = "submit_kyc"
          /\ req'[p] # req[p]
          /\ HeldByOther(req[p].user, req[p].idno) )
        => /\ UserRows' = UserRows
           /\ req'[p].result # "ok"

\* C9: a national id bound to user A is never used to activate another user
\* B: B's submit_kyc with it fails with the duplicate-identity error and
\* leaves B's row unchanged, and in every reachable state, concurrent
\* submissions included, no two users hold the same non-null national id.
C9_NationalIdBoundOnce ==
    /\ [](UniqueIds)
    /\ [][KycWithBoundIdRejected /\ KycNeverTakesBoundId]_vars

\* B, unverified, submitted A's id and was refused with the
\* duplicate-identity error.
C9_Witness ==
    \E p \in Requests :
        /\ req[p].op = "submit_kyc" /\ Done(p)
        /\ req[p].result = "DuplicateIdentity"
        /\ status[req[p].user] = "unverified"
        /\ identity_card_number[req[p].user] = Null
        /\ HeldByOther(req[p].user, req[p].idno)

\* C10: a user cannot submit KYC twice: of two submit_kyc requests for one
\* user, concurrent or not, at most one succeeds, and the user's full_name
\* and identity_card_number stay those of the successful submission.
C10_KycOnlyOnce ==
    \A p \in Requests :
        (req[p].op = "submit_kyc" /\ Done(p) /\ req[p].result = "ok") =>
            /\ full_name[req[p].user] = req[p].name
            /\ identity_card_number[req[p].user] = req[p].idno
            /\ \A q \in Requests \ {p} :
                (req[q].op = "submit_kyc" /\ req[q].user = req[p].user /\ Done(q))
                    => req[q].result # "ok"

\* C11: in every reachable state an active user has a non-null full_name
\* and a non-null national id that no other user holds (a user becomes
\* active only through a successful KYC submission; no other operation of
\* the API makes a user active).
C11_ActiveOnlyViaKyc ==
    \A u \in Users :
        status[u] = "active" =>
            /\ full_name[u] # Null
            /\ identity_card_number[u] # Null
            /\ ~HeldByOther(u, identity_card_number[u])

ValueOps ==
    {"deposit_alipay", "deposit_web3", "internal_transfer", "withdraw_bank",
     "withdraw_web3"}

\* C12: a value-moving request (deposit, transfer, bank or chain
\* withdrawal) of a user who is unverified is rejected with NotActive,
\* commits no balance change and appends no Transaction; and the balance of
\* a user who is still unverified is 0 unless an incoming transfer credited
\* it.
C12_ValueOpsRequireActive ==
    /\ \A p \in Requests :
        ( /\ req[p].op \in ValueOps /\ Done(p)
          /\ status[req[p].user] = "unverified" )
        => /\ req[p].result = "NotActive"
           /\ req[p].writes = 0
           /\ RowsOf(p) = {}
    /\ \A u \in Users :
        (status[u] = "unverified" /\ InitialBalance(u) = 0)
        => \/ balance[u] = 0
           \/ \E i \in 1..Len(transactions) :
                /\ transactions[i].type = "internal_transfer"
                /\ transactions[i].recipient_user_id = u

CompletedRowsOf(p) ==
    {i \in RowsOf(p) : transactions[i].status = "completed"}

FailedRowsOf(p) ==
    {i \in RowsOf(p) : transactions[i].status = "failed"}

\* C13: on gateway success the balance decrement of withdraw_to_web3 and
\* the write of the completed Transaction carrying the hash are one atomic
\* step: no reachable state has the decrement committed without the row, or
\* the row without the decrement; and a request whose send succeeded is
\* never recorded or reported as an ordinary failed withdrawal.
C13_DebitAndRecordAtomic ==
    \A p \in Requests :
        req[p].op = "withdraw_web3" =>
            /\ req[p].writes > 0 <=> CompletedRowsOf(p) # {}
            /\ \A i \in CompletedRowsOf(p) : transactions[i].tx_hash = req[p].hash
            /\ req[p].gw = "success" =>
                    (FailedRowsOf(p) = {} /\ req[p].result # "GatewayError")

\* C14: the web3 withdrawal path tells an indeterminate gateway outcome
\* (timeout, no confirmation reached) from a definite rejection.  A request
\* whose gateway call timed out ends with the balance not decremented and
\* exactly one Transaction recorded for it, and what is recorded and what is
\* answered differ from those of a definite rejection: the Transaction is
\* not an ordinary failed one and the response is not the one a rejection
\* gets.
C14_TimeoutIsStatusUnknown ==
    \A p \in Requests :
        (req[p].op = "withdraw_web3" /\ Done(p) /\ req[p].gw = "timeout")
        => /\ req[p].writes = 0
           /\ Cardinality(RowsOf(p)) = 1
           /\ FailedRowsOf(p) = {}
           /\ req[p].result # "GatewayError"

\* C15: withdraw_to_bank succeeds only for an active initiator whose
\* balance covers the amount and who owns the referenced bank account; the
\* balance decrement and the completed withdraw_bank Transaction are one
\* unit (in every reachable state either both are applied or neither); and
\* a request that failed a precondition changed neither the balance nor the
\* ledger.
C15_BankWithdrawOneUnit ==
    \A p \in Requests :
        req[p].op = "withdraw_bank" =>
            /\ (Done(p) /\ req[p].result = "ok") =>
                    /\ status[req[p].user] = "active"
                    /\ BankAccountOwner(req[p].bank) = req[p].user
                    /\ Alone(p) => InitialBalance(req[p].user) >= req[p].amount
            /\ req[p].writes > 0 <=> CompletedRowsOf(p) # {}
            /\ (Done(p) /\ req[p].result # "ok") =>
                    (req[p].writes = 0 /\ RowsOf(p) = {})

\* C16: a single withdraw_to_web3 request calls the gateway at most once
\* and decrements the balance at most once, whatever the gateway outcome; a
\* failed or timed-out send is never retried, and a request that decrements
\* has sent exactly once.
C16_AtMostOneSendAndDebit ==
    \A p \in Requests :
        req[p].op = "withdraw_web3" =>
            /\ req[p].sends <= 1
            /\ req[p].writes <= 1
            /\ req[p].writes = 1 => req[p].sends = 1
            /\ (Done(p) /\ req[p].gw \in {"rejected", "timeout"}) =>
                    (req[p].sends = 1 /\ req[p].writes = 0)

\* One request ended after a send that timed out, another after a send that
\* succeeded and one decrement.
C16_Witness ==
    \E p, q \in Requests :
        /\ req[p].op = "withdraw_web3" /\ Done(p)
        /\ req[p].gw = "timeout" /\ req[p].sends = 1
        /\ req[q].op = "withdraw_web3" /\ Done(q)
        /\ req[q].gw = "success" /\ req[q].sends = 1 /\ req[q].writes = 1

\* C17: only whitelist entries in normal status receive on-chain
\* withdrawals: whenever a withdraw_to_web3 request calls the gateway, the
\* destination's whitelist entry is in normal status at that moment, also
\* when an admin status update runs concurrently with the request.
C17_SendOnlyToNormalEntry ==
    \A p \in Requests :
        (req[p].op = "withdraw_web3" /\ req[p].sends > 0)
        => req[p].wl_sent = "normal"

Web3RowsOf(p) ==
    {i \in RowsOf(p) : /\ transactions[i].type = "withdraw_web3"
                       /\ \/ /\ transactions[i].status = "completed"
                             /\ transactions[i].tx_hash # Null
                          \/ transactions[i].status = "failed"}

\* C18: once a withdraw_to_web3 request has called the gateway it always
\* runs to a recorded conclusion: it eventually ends, and when it has ended
\* exactly one Transaction of type withdraw_web3 (completed with a hash, or
\* failed) has been appended for it; at no time are there two.
C18_SendLeadsToOneRecord ==
    /\ [](\A p \in Requests :
            req[p].op = "withdraw_web3" =>
                /\ Cardinality(RowsOf(p)) <= 1
                /\ (Done(p) /\ req[p].sends > 0) =>
                        (Cardinality(RowsOf(p)) = 1 /\ Web3RowsOf(p) = RowsOf(p)))
    /\ \A p \in Requests :
            (req[p].op = "withdraw_web3" /\ req[p].sends > 0)
                ~> (Done(p) /\ Cardinality(Web3RowsOf(p)) = 1)

\* A request called the gateway and has not recorded anything yet.
C18_Witness ==
    \E p \in Requests :
        /\ req[p].op = "withdraw_web3" /\ req[p].sends = 1
        /\ ~Done(p) /\ RowsOf(p) = {}

\* C19: registration creates the User and its Account as one unit: in
\* every reachable state each existing user has exactly one account (no
\* state has a users row without its accounts row), and a registered user
\* who has done nothing yet is unverified with balance 0.
C19_UserAndAccountTogether ==
    /\ users = accounts
    /\ \A u \in NewUsers :
        u \in users => (status[u] = "unverified" /\ balance[u] = 0)

\* C20: the active status is terminal: no step of any operation takes a
\* user whose status is active to unverified or to any other value.
C20_ActiveIsTerminal ==
    [][\A u \in AllUsers : status[u] = "active" => status'[u] = "active"]_vars

\* A user who is active was the target of a later submit_kyc and of a later
\* activate_user, both of which have ended.
C20_Witness ==
    \E p, q \in Requests :
        /\ req[p].op = "submit_kyc" /\ Done(p)
        /\ req[q].op = "activate_user" /\ Done(q)
        /\ req[p].user = req[q].user
        /\ status[req[p].user] = "active"
        /\ "AlreadyActive" \in {req[p].result, req[q].result}

CompletedAtMatchesStatus ==
    \A i \in 1..Len(transactions) :
        transactions[i].completed_at # Null <=> transactions[i].status = "completed"

\* Every row of the ledger is still there, at its place and with all its
\* columns, after the step.
LedgerOnlyGrows ==
    /\ Len(transactions') >= Len(transactions)
    /\ \A i \in 1..Len(transactions) : transactions'[i] = transactions[i]

\* C21: in every reachable state a Transaction's completed_at is set if and
\* only if its status is completed; the ledger is append-only: no step
\* changes the amount, type, participants or any other column of a recorded
\* Transaction, and no step removes one.
C21_LedgerAppendOnly ==
    /\ [](CompletedAtMatchesStatus)
    /\ [][LedgerOnlyGrows]_vars

\* The ledger holds a completed and a failed row appended by two requests.
C21_Witness ==
    \E i, j \in (Len(InitialTransactions) + 1)..Len(transactions) :
        /\ transactions[i].status = "completed"
        /\ transactions[i].completed_at = "set"
        /\ transactions[j].status = "failed"
        /\ transactions[j].completed_at = Null

FrozenAtMatchesStatus ==
    \A a \in Addresses :
        whitelist[a] # "absent" =>
            (frozen_at[a] # NoTime <=> whitelist[a] = "frozen")

Entry(a) == <<whitelist[a], label[a], frozen_at[a]>>

\* A successful status update that writes the status the entry already has
\* (the entry is as an earlier update to that status left it) changes
\* nothing of the entry.
SetStatusAgainChangesNothing ==
    \A p \in Requests :
        ( /\ req[p].pc = "idle"
          /\ req'[p].op = "update_whitelist_status"
          /\ req'[p].result = "ok"
          /\ whitelist[req'[p].addr] = req'[p].new_status )
        => LET a == req'[p].addr IN
           <<whitelist'[a], label'[a], frozen_at'[a]>> = Entry(a)

\* C22: whitelist setStatus is idempotent and keeps frozen_at matched to
\* status: applying setStatus(entry, s) to an entry that setStatus(entry, s)
\* has already been applied to leaves the entry as the first application
\* left it, frozen_at included; and in every reachable state an entry's
\* frozen_at is set if and only if its status is frozen.
C22_SetStatusIdempotent ==
    /\ [](FrozenAtMatchesStatus)
    /\ [][SetStatusAgainChangesNothing]_vars

\* C22, the part that holds: frozen_at is set exactly on frozen entries, and
\* a repeated setStatus leaves status and label as they were.
C22_FrozenAtMatchesStatus ==
    /\ [](FrozenAtMatchesStatus)
    /\ [][\A p \in Requests :
            ( /\ req[p].pc = "idle"
              /\ req'[p].op = "update_whitelist_status"
              /\ req'[p].result = "ok"
              /\ whitelist[req'[p].addr] = req'[p].new_status )
            => /\ whitelist'[req'[p].addr] = whitelist[req'[p].addr]
               /\ label'[req'[p].addr] = label[req'[p].addr]]_vars

\* An entry that was frozen at one time has been frozen again later and an
\* entry has been set back to normal.
C22_Witness ==
    \E p, q \in Requests :
        /\ req[p].op = "update_whitelist_status" /\ req[p].result = "ok"
        /\ req[p].new_status = "frozen" /\ req[p].addr = "0xB"
        /\ req[q].op = "update_whitelist_status" /\ req[q].result = "ok"
        /\ req[q].new_status = "normal" /\ req[q].addr = "0xB"
        /\ p < q
        /\ whitelist["0xB"] = "normal" /\ frozen_at["0xB"] = NoTime

UniqueAddresses ==
    \A i, j \in DOMAIN whitelist_rows :
        i # j => whitelist_rows[i] # whitelist_rows[j]

\* An add request arrives with a well-formed address that an entry holds: it
\* ends with the duplicate-address error and the registry is unchanged.
AddOfPresentRejected ==
    \A p \in Requests :
        ( /\ req[p].pc = "idle" /\ req'[p].op = "add_to_whitelist"
          /\ WellFormedAddress(req'[p].addr)
          /\ WhitelistAddressTaken(req'[p].addr) )
        => /\ req'[p].result = "DuplicateAddress"
           /\ req'[p].pc = "done"
           /\ whitelist_table' = whitelist_table

\* No step of an add request changes the registry, or succeeds, while an
\* entry holds the address it adds.
AddNeverTouchesPresent ==
    \A p \in Requests :
        ( /\ req[p].op = "add_to_whitelist"
          /\ req'[p] # req[p]
          /\ WhitelistAddressTaken(req[p].addr) )
        => /\ whitelist_table' = whitelist_table
           /\ req'[p].result # "ok"

\* C23: a whitelist add of an address already present fails with the
\* duplicate-address error and leaves the registry unchanged (the existing
\* entry keeps its label, status and frozen_at); and in every reachable
\* state, also after concurrent adds of one address, no two whitelist
\* entries have the same address.
C23_AddressAddedOnce ==
    /\ [](UniqueAddresses)
    /\ [][AddOfPresentRejected /\ AddNeverTouchesPresent]_vars

\* Two adds of one new address overlapped: one inserted the entry, the other
\* was refused at its commit, and the entry is the one the first inserted.
C23_Witness ==
    \E p, q \in Requests :
        /\ p # q
        /\ req[p].op = "add_to_whitelist" /\ req[q].op = "add_to_whitelist"
        /\ req[p].addr = req[q].addr
        /\ req[p].result = "ok" /\ req[q].result = "IntegrityError"
        /\ Len(whitelist_rows) = 3
        /\ Entry(req[p].addr) = <<"normal", req[p].label, NoTime>>

\* What a recorded Transaction adds to the balance of user u
LedgerDelta(tx, u) ==
    IF tx.status # "completed" THEN 0
    ELSE (IF tx.type \in {"deposit_alipay", "deposit_web3"}
             /\ tx.initiator_user_id = u THEN tx.amount ELSE 0)
       + (IF tx.type = "internal_transfer" /\ tx.recipient_user_id = u
          THEN tx.amount ELSE 0)
       - (IF tx.type \in {"internal_transfer", "withdraw_bank", "withdraw_web3"}
             /\ tx.initiator_user_id = u THEN tx.amount ELSE 0)

RECURSIVE LedgerBalance(_, _)
\* The balance of user u according to the first n rows of the ledger
LedgerBalance(u, n) ==
    IF n = 0 THEN 0
    ELSE LedgerBalance(u, n - 1) + LedgerDelta(transactions[n], u)

\* The balance changes a completed Transaction of the operation stands for
ChangesPerRow(op) == IF op = "internal_transfer" THEN 2 ELSE 1

\* C24: ledger and balances agree in every state observable between
\* requests (no request is being served): each account's balance is the sum
\* of its user's completed deposits and received transfers minus the sent
\* transfers and the bank and web3 withdrawals; every request that changed
\* a balance has exactly one completed Transaction and every completed
\* Transaction belongs to a request that made the balance changes it stands
\* for.
C24_LedgerMatchesBalances ==
    Quiescent =>
        /\ \A u \in accounts :
            balance[u] = LedgerBalance(u, Len(transactions))
        /\ \A p \in Requests :
            req[p].op \in ValueOps =>
                /\ Cardinality(CompletedRowsOf(p)) <= 1
                /\ req[p].writes > 0 <=> CompletedRowsOf(p) # {}
                /\ CompletedRowsOf(p) # {} =>
                        req[p].writes = ChangesPerRow(req[p].op)

TransferRejections ==
    {"NotActive", "InsufficientFunds", "SelfTransfer", "RecipientNotFound",
     "RecipientNotActive"}

\* The recipient of transfer request p is the sender, nobody, or a user who
\* is not active
BadRecipient(p) ==
    \/ req[p].to = req[p].user
    \/ req[p].to \notin users
    \/ status[req[p].to] # "active"

\* C25: internal_transfer credits only an existing, active recipient
\* different from the sender.  A transfer that has passed the recipient
\* checks has such a recipient; a transfer to the sender's own email, to an
\* unknown email or to an unverified recipient ends rejected; and a rejected
\* transfer has changed no balance and appended no Transaction.
C25_TransferRecipientChecked ==
    \A p \in Requests :
        req[p].op = "internal_transfer" =>
            /\ (req[p].writes > 0 \/ RowsOf(p) # {} \/ req[p].result = "ok")
                    => ~BadRecipient(p)
            /\ (Done(p) /\ BadRecipient(p))
                    => req[p].result \in TransferRejections
            /\ (Done(p) /\ req[p].to = req[p].user
                    /\ status[req[p].user] = "active" /\ Alone(p)
                    /\ InitialBalance(req[p].user) >= req[p].amount)
                    => req[p].result = "SelfTransfer"
            /\ req[p].result \in TransferRejections
                    => (req[p].writes = 0 /\ RowsOf(p) = {})
            /\ Alone(p) /\ req[p].result \in TransferRejections
                    => (balance = InitialBalances
                        /\ transactions = InitialTransactions)

\* An active sender with a sufficient balance was refused a transfer to
\* their own email, and another to an email no user has.
C25_Witness ==
    \E p, q \in Requests :
        /\ req[p].op = "internal_transfer" /\ req[q].op = "internal_transfer"
        /\ req[p].result = "SelfTransfer" /\ req[p].to = req[p].user
        /\ req[q].result = "RecipientNotFound" /\ req[q].to \notin users
        /\ balance = InitialBalances
        /\ transactions = InitialTransactions

====
